---- MODULE Spec2Model ----
(***************************************************************************)
(* Ligand-identification extraction scripts (ache_only_extract.py and its  *)
(* copies): the Excel column clean-up that normalizes the 'PDB ID' labels, *)
(* the per-row download, the model/chain/residue traversal that collects   *)
(* ligand candidates, the selection of the primary ligand and the CSV;     *)
(* then the scripts around them: the VMD batch runs with their cache of    *)
(* PDB files, the validation of the mapping, the single conversion and the *)
(* sorting of the ligand folders.                                          *)
(***************************************************************************)
EXTENDS Integers, Sequences, FiniteSets, TLC

VARIABLES
    sheet,              \* the Excel cells as read by pd.read_excel (never written)
    df,                 \* the DataFrame: rows with columns "PDB ID" and PDB_ID
    pc,                 \* position of the script
    i,                  \* index of the row the for loop is at
    requests,           \* the GET requests issued so far: [row, url]
    structure,          \* the parsed structure of the current row
    pos,                \* number of residues the traversal has visited
    ligands,            \* list `ligands`
    all_residues,       \* set `all_residues`
    residue_counts,     \* Counter `residue_counts`: entries in insertion order
    most_common_ligand, \* `most_common_ligand`
    results,            \* list `results`
    csv,                \* rows written by to_csv
    console,            \* what the except clause has printed: [row, error]
    vrows,              \* final_ligand_extraction.py: the rows of the validated CSV
    vi,                 \* index of the row its for loop is at
    vpc,                \* position of that script
    cache,              \* data/pdb_files: text of {code}.pdb, or Missing
    netlog,             \* the GET requests it issued: [row, code, ok]
    vmd,                \* the VMD runs it started: [row, step, ok]
    outfiles,           \* the files written under data/ligands: [folder, file]
    bd2_results,        \* extract_ligands_split_dual.py: list `bd2_results`
    ache_results,       \* extract_ligands_split_dual.py: list `ache_results`
    clean_df,           \* validate_ligand_mapping.py: DataFrame `clean_df`
    fs,                 \* the paths that exist under the directories a tool works on
    listing,            \* the order in which rglob / iterdir yields the entries
    written,            \* the files a tool has written or moved, in order
    count               \* both_vmd_render.py: `count` of process_csv

vars == <<sheet, df, pc, i, requests, structure, pos, ligands, all_residues,
          residue_counts, most_common_ligand, results, csv, console,
          vrows, vi, vpc, cache, netlog, vmd, outfiles,
          bd2_results, ache_results, clean_df, fs, listing, written, count>>

\* the state of the scripts that neither extract nor drive VMD from the
\* validated CSV
otherVars == <<bd2_results, ache_results, clean_df, fs, listing, written, count>>

vmdVars == <<vrows, vi, vpc, cache, netlog, vmd, outfiles>>

extractVars == <<sheet, df, pc, i, requests, structure, pos, ligands, all_residues,
                 residue_counts, most_common_ligand, results, csv, console>>

rowVars == <<structure, pos, ligands, all_residues, residue_counts,
             most_common_ligand>>

-----------------------------------------------------------------------------
(* Bounds of the model *)

MaxLen == 6         \* longest raw 'PDB ID' cell, in characters
MaxResidues == 3    \* most residues in one structure
MaxAtoms == 2       \* most atoms in one residue
MaxRows == 2        \* most rows in the sheet of a batch run
MaxLines == 2       \* most lines in a cached PDB file that is scanned by line

-----------------------------------------------------------------------------
(* Characters and strings.  A string is a sequence of one-character tokens; *)
(* NBSP stands for the non-breaking space "\xa0".                           *)

NBSP == "nbsp"

Chars == {"a", "7", "_", " ", NBSP}

Letters == {"a", "b", "c", "n", "A", "B", "C", "N"}
Digits == {"1", "4", "7"}

\* str.isalnum of one character
IsAlnum(c) == c \in Letters \cup Digits

\* the regular expression class \w: alphanumerics and the underscore
IsWordChar(c) == IsAlnum(c) \/ c = "_"

\* what str.strip() removes at both ends (the non-breaking space is whitespace)
IsSpace(c) == c \in {" ", NBSP}

UpperChar(c) ==
    CASE c = "a" -> "A"
      [] c = "b" -> "B"
      [] c = "c" -> "C"
      [] c = "n" -> "N"
      [] OTHER -> c

\* pandas' missing value
NaN == <<"<NaN>">>

\* astype(str): a missing cell becomes the text "nan"
AsTypeStr(cell) == IF cell = NaN THEN <<"n", "a", "n">> ELSE cell

RECURSIVE RemoveChar(_, _)
\* .str.replace("\xa0", "", regex=False)
RemoveChar(s, c) ==
    IF s = <<>> THEN <<>>
    ELSE IF Head(s) = c THEN RemoveChar(Tail(s), c)
         ELSE <<Head(s)>> \o RemoveChar(Tail(s), c)

RECURSIVE LStrip(_)
LStrip(s) ==
    IF s # <<>> /\ IsSpace(Head(s)) THEN LStrip(Tail(s)) ELSE s

RECURSIVE RStrip(_)
RStrip(s) ==
    IF s # <<>> /\ IsSpace(s[Len(s)]) THEN RStrip(SubSeq(s, 1, Len(s) - 1)) ELSE s

\* .str.strip()
Strip(s) == IF s = NaN THEN NaN ELSE RStrip(LStrip(s))

\* .str.upper()
Upper(s) == IF s = NaN THEN NaN ELSE [k \in 1..Len(s) |-> UpperChar(s[k])]

\* start positions at which \w{4} matches in s
W4Starts(s) ==
    {k \in 1..(Len(s) - 3) : \A j \in k..(k + 3) : IsWordChar(s[j])}

Min(S) == CHOOSE x \in S : \A y \in S : x <= y

\* faulty variant of ExtractW4End: the pattern without its $ anchor
ExtractW4First(s) ==
    IF W4Starts(s) = {} THEN NaN
    ELSE SubSeq(s, Min(W4Starts(s)), Min(W4Starts(s)) + 3)

\* .str.extract(r'(\w{4})$')[0]: re.search takes the leftmost match that
\* ends at the end of the string; no match gives NaN
ExtractW4End(s) ==
    LET ends == {k \in W4Starts(s) : k + 3 = Len(s)}
    IN  IF ends = {} THEN NaN ELSE SubSeq(s, Min(ends), Min(ends) + 3)

\* line 41: astype(str).str.replace("\xa0", "").str.strip()
CleanLabel(cell) == Strip(RemoveChar(AsTypeStr(cell), NBSP))

\* line 42: .str.extract(r'(\w{4})$')[0].str.upper().str.strip()
NormalizeCode(label) == Strip(Upper(ExtractW4End(label)))

\* f"{pdb_id}": a missing PDB_ID is formatted as the text "nan"
FormatCode(code) == IF code = NaN THEN <<"n", "a", "n">> ELSE code

-----------------------------------------------------------------------------
(* Residues and structures.  A residue is what Bio.PDB hands to the loop:  *)
(* its name, the hetero field residue.id[0] (" " for a standard polymer    *)
(* residue, "W" for water, "H" for any other HETATM group) and its atoms.  *)

SOLVENTS == {"HOH", "WAT", "SO4", "PO4", "CL", "NA", "MG", "ZN", "K", "CA"}

AtomCounts == 1..MaxAtoms

Residue(n, h, a) == [resname |-> n, het |-> h, atoms |-> a]

ResidueKinds ==
    {Residue("ALA", " ", 1), Residue("UNL", " ", 1),
     Residue("HOH", "W", 1), Residue("CA", "H", 1)}
    \cup {Residue("UNL", "H", 1)}
    \cup {Residue("JQ1", "H", a) : a \in AtomCounts}

Gaps == {"residue", "chain", "model"}

RECURSIVE Build(_, _, _)
\* the structure holding the first k residues of flat; gap[j] tells whether
\* residue j+1 continues the chain, opens a chain or opens a model
Build(flat, gap, k) ==
    IF k = 0 THEN <<>>
    ELSE IF k = 1 THEN << << <<flat[1]>> >> >>
    ELSE LET s == Build(flat, gap, k - 1)
             m == s[Len(s)]
             c == m[Len(m)]
         IN  CASE gap[k - 1] = "model" -> Append(s, << <<flat[k]>> >>)
               [] gap[k - 1] = "chain" ->
                    [s EXCEPT ![Len(s)] = Append(m, <<flat[k]>>)]
               [] OTHER ->
                    [s EXCEPT ![Len(s)] = [m EXCEPT ![Len(m)] = Append(c, flat[k])]]

\* structure is some structure of at most MaxResidues residues
AnyStructure ==
    \E n \in 0..MaxResidues :
        \E f \in [1..n -> ResidueKinds], g \in [1..(n - 1) -> Gaps] :
            structure = Build(f, g, n)

RECURSIVE Concat(_)
Concat(ss) == IF ss = <<>> THEN <<>> ELSE Head(ss) \o Concat(Tail(ss))

\* for model in structure: for chain in model: for residue in chain
Traversal(s) == Concat([m \in 1..Len(s) |-> Concat(s[m])])

\* residue.get_resname().strip()
Resname(residue) == residue.resname

\* faulty variant of IsHetatm: every residue is taken for a HETATM group
IsHetatmAlways(residue) == TRUE

\* residue.id[0] != " "
IsHetatm(residue) == residue.het # " "

\* faulty variant of NotSolvent: water is missing from the exclusion set
NotSolventButWater(resname) == resname \notin (SOLVENTS \ {"HOH"})

\* resname not in SOLVENTS
NotSolvent(resname) == resname \notin SOLVENTS

\* Counter: a dict, its entries kept in insertion order
CounterNames(counts) == {counts[k].name : k \in 1..Len(counts)}

CounterGet(counts, name) ==
    IF name \in CounterNames(counts)
    THEN counts[CHOOSE k \in 1..Len(counts) : counts[k].name = name].n
    ELSE 0

CounterAdd(counts, name, n) ==
    IF name \in CounterNames(counts)
    THEN [k \in 1..Len(counts) |->
            IF counts[k].name = name
            THEN [name |-> name, n |-> counts[k].n + n]
            ELSE counts[k]]
    ELSE Append(counts, [name |-> name, n |-> n])

\* faulty variant of CountResidue: one count per atom of the residue
CountAtoms(counts, residue) == CounterAdd(counts, Resname(residue), residue.atoms)

\* residue_counts[resname] += 1
CountResidue(counts, residue) == CounterAdd(counts, Resname(residue), 1)

\* faulty variant of MostCommon1: the last entry of the highest count
MostCommonLast(counts) ==
    LET best == {k \in 1..Len(counts) : \A j \in 1..Len(counts) : counts[j].n <= counts[k].n}
    IN  counts[CHOOSE k \in best : \A j \in best : j <= k].name

\* faulty variant of MostCommon1: the first entry, whatever its count
MostCommonFirstEntry(counts) == counts[1].name

\* residue_counts.most_common(1)[0][0]: heapq.nlargest(1, items, key=count)
\* is max(), which keeps the first of the entries of the highest count
MostCommon1(counts) ==
    LET best == {k \in 1..Len(counts) : \A j \in 1..Len(counts) : counts[j].n <= counts[k].n}
    IN  counts[Min(best)].name

\* faulty variant of AddResidueName: only unclassified residues are recorded
AddUnlessCandidate(all, residue) ==
    IF IsHetatm(residue) /\ NotSolvent(Resname(residue)) THEN all
    ELSE all \cup {Resname(residue)}

\* all_residues.add(resname)
AddResidueName(all, residue) == all \cup {Resname(residue)}

\* sorted(): Python orders str by code point
NameOrder == <<"ALA", "CA", "HOH", "JQ1", "UNL">>

\* sorted(set(names)), the list ", ".join is given
SortedNames(S) == SelectSeq(NameOrder, LAMBDA n : n \in S)

SeqToSet(s) == {s[k] : k \in 1..Len(s)}

\* faulty variant of CandidatesField: the list is joined as it was collected
CandidatesFieldJoined(ligs) == IF ligs # <<>> THEN ligs ELSE <<"None">>

\* ", ".join(sorted(set(ligands))) if ligands else "None"
CandidatesField(ligs) ==
    IF ligs # <<>> THEN SortedNames(SeqToSet(ligs)) ELSE <<"None">>

\* faulty variant of SelectLigand: the failure marker "N/A" as the default
SelectLigandNA(counts) == IF counts # <<>> THEN MostCommon1(counts) ELSE "N/A"

\* residue_counts.most_common(1)[0][0] if residue_counts else "None"
SelectLigand(counts) == IF counts # <<>> THEN MostCommon1(counts) ELSE "None"

-----------------------------------------------------------------------------
(* The inputs *)


\* the cells of a batch run: a plain code, a padded label with prefix text, a
\* label that is too short, a label whose last four hold an underscore, and
\* an empty cell
BatchCells ==
    {<<"1", "a", "b", "c">>,
     <<NBSP, "B", "_", "4", "a", "b", "c", " ">>,
     <<"a", "b">>,
     <<"a", "b", "_", "1">>,
     NaN}

\* the structures the download of a batch run may return
BatchStructures ==
    {<<>>,
     << << <<Residue("ALA", " ", 1), Residue("HOH", "W", 1)>> >> >>,
     << << <<Residue("ALA", " ", 1)>>, <<Residue("JQ1", "H", 1), Residue("HOH", "W", 1)>> >> >>,
     << << <<Residue("UNL", "H", 1), Residue("JQ1", "H", 1)>> >> >>}

\* the sheet read from the list of cells f, one row per cell
SheetOf(f) == [k \in 1..Len(f) |-> [Unique_ID |-> k, label |-> f[k]]]

\* the files the RCSB server can have: a code of four alphanumerics
RemoteMayHave(code) == Len(code) = 4 /\ \A k \in 1..4 : IsAlnum(code[k])

\* what requests.get, raise_for_status and get_structure raise
Exceptions == {"ConnectionError", "HTTPError", "ParseError"}

Url(code) == <<"https://files.rcsb.org/download/">> \o FormatCode(code) \o <<".pdb">>

-----------------------------------------------------------------------------
(* The script *)

Unset == "<unset>"

\* no file of that name in data/pdb_files
Missing == "<missing>"

\* final_ligand_extraction.py is not running
\* the other scripts are not running
OtherIdle ==
    /\ bd2_results = <<>>
    /\ ache_results = <<>>
    /\ clean_df = <<>>
    /\ fs = {}
    /\ listing = <<>>
    /\ written = <<>>
    /\ count = 0

VmdIdle ==
    /\ vrows = <<>>
    /\ vi = 0
    /\ vpc = "off"
    /\ cache = <<>>
    /\ netlog = <<>>
    /\ vmd = <<>>
    /\ outfiles = {}

InitRow ==
    /\ structure = <<>>
    /\ pos = 0
    /\ ligands = <<>>
    /\ all_residues = {}
    /\ residue_counts = <<>>
    /\ most_common_ligand = Unset

\* lines 39-47: the sheet is read, nothing is cleaned yet
InitLoaded ==
    /\ df = [k \in 1..Len(sheet) |-> [label |-> sheet[k].label, PDB_ID |-> NaN]]
    /\ pc = "clean"
    /\ i = 0
    /\ requests = <<>>
    /\ results = <<>>
    /\ csv = <<>>
    /\ console = <<>>
    /\ InitRow
    /\ VmdIdle
    /\ OtherIdle

\* line 41
CleanColumn ==
    /\ pc = "clean"
    /\ df' = [k \in 1..Len(df) |-> [df[k] EXCEPT !.label = CleanLabel(@)]]
    /\ pc' = "extract"
    /\ UNCHANGED <<sheet, i, requests, results, csv, console, rowVars>>
    /\ UNCHANGED vmdVars
    /\ UNCHANGED otherVars

\* line 42; the for loop of line 50 then starts at the first row
ExtractCode ==
    /\ pc = "extract"
    /\ df' = [k \in 1..Len(df) |-> [df[k] EXCEPT !.PDB_ID = NormalizeCode(df[k].label)]]
    /\ pc' = "loop"
    /\ i' = 1
    /\ UNCHANGED <<sheet, requests, results, csv, console, rowVars>>
    /\ UNCHANGED vmdVars
    /\ UNCHANGED otherVars

\* faulty variant of FetchOk: the three collections are not emptied per row
FetchOkNoReset ==
    /\ pc = "loop"
    /\ i <= Len(df)
    /\ RemoteMayHave(FormatCode(df[i].PDB_ID))
    /\ requests' = Append(requests, [row |-> i, url |-> Url(df[i].PDB_ID)])
    /\ \E s \in BatchStructures : structure' = s
    /\ pos' = 0
    /\ pc' = "traverse"
    /\ UNCHANGED <<sheet, df, i, ligands, all_residues, residue_counts,
                   most_common_ligand, results, csv, console>>
    /\ UNCHANGED vmdVars
    /\ UNCHANGED otherVars

\* lines 51-65: the download and the parse succeed
FetchOk ==
    /\ pc = "loop"
    /\ i <= Len(df)
    /\ RemoteMayHave(FormatCode(df[i].PDB_ID))
    /\ requests' = Append(requests, [row |-> i, url |-> Url(df[i].PDB_ID)])
    /\ \E s \in BatchStructures : structure' = s
    /\ pos' = 0
    /\ ligands' = <<>>
    /\ all_residues' = {}
    /\ residue_counts' = <<>>
    /\ pc' = "traverse"
    /\ UNCHANGED <<sheet, df, i, most_common_ligand, results, csv, console>>
    /\ UNCHANGED vmdVars
    /\ UNCHANGED otherVars

\* faulty variant of FetchFail: the failed row is tried again
FetchFailRetry ==
    /\ pc = "loop"
    /\ i <= Len(df)
    /\ Len(requests) < 2 * MaxRows
    /\ requests' = Append(requests, [row |-> i, url |-> Url(df[i].PDB_ID)])
    /\ \E e \in Exceptions : console' = Append(console, [row |-> i, error |-> e])
    /\ UNCHANGED <<sheet, df, pc, i, results, csv, rowVars>>
    /\ UNCHANGED vmdVars
    /\ UNCHANGED otherVars

\* the row lines 80-87 append
ResultRow(k, ligand) ==
    [UniqueID |-> sheet[k].Unique_ID,
     label |-> df[k].label,
     PDB_ID |-> df[k].PDB_ID,
     Ligand |-> ligand,
     Candidates |-> CandidatesField(ligands),
     Residues |-> SortedNames(all_residues)]

\* faulty variant of FinishRow: the new row is put in front
FinishRowPrepend ==
    /\ pc = "traverse"
    /\ pos = Len(Traversal(structure))
    /\ most_common_ligand' = SelectLigand(residue_counts)
    /\ results' = <<ResultRow(i, most_common_ligand')>> \o results
    /\ i' = i + 1
    /\ pc' = "loop"
    /\ UNCHANGED <<sheet, df, requests, structure, pos, ligands, all_residues,
                   residue_counts, csv, console>>
    /\ UNCHANGED vmdVars
    /\ UNCHANGED otherVars

\* faulty variant of FinishRow: an earlier row of the same code is dropped
FinishRowDedup ==
    /\ pc = "traverse"
    /\ pos = Len(Traversal(structure))
    /\ most_common_ligand' = SelectLigand(residue_counts)
    /\ results' = Append(SelectSeq(results, LAMBDA r : r.PDB_ID # df[i].PDB_ID),
                         ResultRow(i, most_common_ligand'))
    /\ i' = i + 1
    /\ pc' = "loop"
    /\ UNCHANGED <<sheet, df, requests, structure, pos, ligands, all_residues,
                   residue_counts, csv, console>>
    /\ UNCHANGED vmdVars
    /\ UNCHANGED otherVars

\* faulty variant of FetchFail: no except clause, the error ends the script
FetchFailAborts ==
    /\ pc = "loop"
    /\ i <= Len(df)
    /\ requests' = Append(requests, [row |-> i, url |-> Url(df[i].PDB_ID)])
    /\ pc' = "aborted"
    /\ UNCHANGED <<sheet, df, i, results, csv, console, rowVars>>
    /\ UNCHANGED vmdVars
    /\ UNCHANGED otherVars

\* lines 51-61 and 89-91: requests.get, raise_for_status or get_structure
\* raises; the except clause prints the error and the row is skipped
FetchFail ==
    /\ pc = "loop"
    /\ i <= Len(df)
    /\ requests' = Append(requests, [row |-> i, url |-> Url(df[i].PDB_ID)])
    /\ \E e \in Exceptions : console' = Append(console, [row |-> i, error |-> e])
    /\ i' = i + 1
    /\ UNCHANGED <<sheet, df, pc, results, csv, rowVars>>
    /\ UNCHANGED vmdVars
    /\ UNCHANGED otherVars

\* lines 67-76: one residue of the traversal
VisitResidue ==
    /\ pc = "traverse"
    /\ pos < Len(Traversal(structure))
    /\ LET residue == Traversal(structure)[pos + 1]
       IN  /\ all_residues' = AddResidueName(all_residues, residue)
           /\ IF IsHetatm(residue) /\ NotSolvent(Resname(residue))
              THEN /\ ligands' = Append(ligands, Resname(residue))
                   /\ residue_counts' = CountResidue(residue_counts, residue)
              ELSE UNCHANGED <<ligands, residue_counts>>
    /\ pos' = pos + 1
    /\ UNCHANGED <<sheet, df, pc, i, requests, structure, most_common_ligand,
                   results, csv, console>>
    /\ UNCHANGED vmdVars
    /\ UNCHANGED otherVars

\* lines 78-87: the traversal is over
FinishRow ==
    /\ pc = "traverse"
    /\ pos = Len(Traversal(structure))
    /\ most_common_ligand' = SelectLigand(residue_counts)
    /\ results' = Append(results, ResultRow(i, most_common_ligand'))
    /\ i' = i + 1
    /\ pc' = "loop"
    /\ UNCHANGED <<sheet, df, requests, structure, pos, ligands, all_residues,
                   residue_counts, csv, console>>
    /\ UNCHANGED vmdVars
    /\ UNCHANGED otherVars

\* lines 94-95
SaveCsv ==
    /\ pc = "loop"
    /\ i > Len(df)
    /\ csv' = results
    /\ pc' = "done"
    /\ UNCHANGED <<sheet, df, i, requests, results, console, rowVars>>
    /\ UNCHANGED vmdVars
    /\ UNCHANGED otherVars

\* the batch run of ache_only_extract.py
Init ==
    /\ \E m \in 1..MaxRows : \E f \in [1..m -> BatchCells] : sheet = SheetOf(f)
    /\ InitLoaded

Next ==
    \/ CleanColumn
    \/ ExtractCode
    \/ FetchOk
    \/ FetchFail
    \/ VisitResidue
    \/ FinishRow
    \/ SaveCsv

Spec == Init /\ [][Next]_vars

\* f"Error: {e}"
ErrorField(e) ==
    CASE e = "ConnectionError" -> "Error: ConnectionError"
      [] e = "HTTPError" -> "Error: HTTPError"
      [] e = "ParseError" -> "Error: ParseError"

\* faulty variant of ErrorRow: the marker "N/A" in place of the message
ErrorRowNA(k, e) ==
    [UniqueID |-> sheet[k].Unique_ID,
     label |-> df[k].label,
     PDB_ID |-> df[k].PDB_ID,
     Ligand |-> "N/A",
     Candidates |-> <<"N/A">>,
     Residues |-> <<"N/A">>]

\* the row the except clause of ligand_mapping_full.py appends
ErrorRow(k, e) ==
    [UniqueID |-> sheet[k].Unique_ID,
     label |-> df[k].label,
     PDB_ID |-> df[k].PDB_ID,
     Ligand |-> ErrorField(e),
     Candidates |-> <<"N/A">>,
     Residues |-> <<"N/A">>]

\* ligand_mapping_full.py, lines 60-70 and 98-107: requests.get,
\* raise_for_status or get_structure raises; the except clause prints the
\* error and appends a row that carries it
FetchFailFull ==
    /\ pc = "loop"
    /\ i <= Len(df)
    /\ requests' = Append(requests, [row |-> i, url |-> Url(df[i].PDB_ID)])
    /\ \E e \in Exceptions :
          /\ console' = Append(console, [row |-> i, error |-> e])
          /\ results' = Append(results, ErrorRow(i, e))
    /\ i' = i + 1
    /\ UNCHANGED <<sheet, df, pc, csv, rowVars>>
    /\ UNCHANGED vmdVars
    /\ UNCHANGED otherVars

\* the batch run of ligand_mapping_full.py
NextFull ==
    \/ CleanColumn
    \/ ExtractCode
    \/ FetchOk
    \/ FetchFailFull
    \/ VisitResidue
    \/ FinishRow
    \/ SaveCsv

SpecFull == Init /\ [][NextFull]_vars

\* the clean-up of one cell, over every raw cell
InitNorm ==
    /\ \/ sheet = SheetOf(<<NaN>>)
       \/ \E n \in 0..MaxLen : \E text \in [1..n -> Chars] : sheet = SheetOf(<<text>>)
    /\ InitLoaded

NextNorm == CleanColumn \/ ExtractCode

SpecNorm == InitNorm /\ [][NextNorm]_vars

\* the traversal and selection of one row, over every structure: the state
\* after the download of line 57 and the parse of line 61
InitLig ==
    /\ sheet = <<[Unique_ID |-> 1, label |-> <<"1", "a", "b", "c">>]>>
    /\ df = <<[label |-> <<"1", "a", "b", "c">>, PDB_ID |-> <<"1", "A", "B", "C">>]>>
    /\ pc = "traverse"
    /\ i = 1
    /\ requests = <<[row |-> 1, url |-> Url(<<"1", "A", "B", "C">>)]>>
    /\ AnyStructure
    /\ pos = 0
    /\ ligands = <<>>
    /\ all_residues = {}
    /\ residue_counts = <<>>
    /\ most_common_ligand = Unset
    /\ results = <<>>
    /\ csv = <<>>
    /\ console = <<>>
    /\ VmdIdle
    /\ OtherIdle

NextLig == VisitResidue \/ FinishRow \/ SaveCsv

SpecLig == InitLig /\ [][NextLig]_vars

-----------------------------------------------------------------------------
(* final_ligand_extraction.py: the cache of downloaded PDB files and the   *)
(* two VMD runs of every row of the validated CSV.                         *)

\* the PDB_ID values of the validated CSV
VmdCodes == {<<"1", "A", "B", "C">>, <<"4", "A", "B", "C">>}

\* what the server may answer for a code, at one time or another
Texts == {"v1", "v2"}

\* the extraction scripts are not running
ExtractIdle ==
    /\ sheet = <<>>
    /\ df = <<>>
    /\ pc = "off"
    /\ i = 0
    /\ requests = <<>>
    /\ results = <<>>
    /\ csv = <<>>
    /\ console = <<>>
    /\ InitRow

\* f"BRD4-BD1_{row['UniqueID']}_{row['PDB_ID']}"
OutputFolder(row) == <<"BRD4-BD1", row.UniqueID, row.PDB_ID>>

\* faulty variant of CacheHit: the download is never skipped
CacheHitNever(c, code) == FALSE

\* pdb_local_path.exists()
CacheHit(c, code) == c[code] # Missing

\* pdb_local_path.write_text(response.text)
StoreText(c, code, text) == [c EXCEPT ![code] = text]

\* lines 89-121: the output folder and the two TCL scripts
WithScripts(files, row) ==
    files \cup {[folder |-> OutputFolder(row), file |-> "extract_ligand.tcl"],
                [folder |-> OutputFolder(row), file |-> "render.tcl"]}

\* lines 41-66: the folders exist, the CSV is open, the cache holds what
\* earlier runs left in it
InitFinal ==
    /\ \E m \in 1..MaxRows : \E f \in [1..m -> VmdCodes] :
          vrows = [k \in 1..m |-> [UniqueID |-> k, PDB_ID |-> f[k], Ligand |-> "JQ1"]]
    /\ vi = 1
    /\ vpc = "row"
    /\ cache \in [VmdCodes -> {Missing} \cup Texts]
    /\ netlog = <<>>
    /\ vmd = <<>>
    /\ outfiles = {}
    /\ ExtractIdle
    /\ OtherIdle

\* faulty variant of UseCached: a cached file is refreshed from the server
UseCachedRefresh ==
    /\ vpc = "row"
    /\ vi <= Len(vrows)
    /\ CacheHit(cache, vrows[vi].PDB_ID)
    /\ netlog' = Append(netlog, [row |-> vi, code |-> vrows[vi].PDB_ID, ok |-> TRUE])
    /\ \E text \in Texts : cache' = StoreText(cache, vrows[vi].PDB_ID, text)
    /\ outfiles' = WithScripts(outfiles, vrows[vi])
    /\ vpc' = "extract"
    /\ UNCHANGED <<vrows, vi, vmd>>
    /\ UNCHANGED extractVars
    /\ UNCHANGED otherVars

\* lines 68-80 and 86-121: the file is in the cache, no download
UseCached ==
    /\ vpc = "row"
    /\ vi <= Len(vrows)
    /\ CacheHit(cache, vrows[vi].PDB_ID)
    /\ outfiles' = WithScripts(outfiles, vrows[vi])
    /\ vpc' = "extract"
    /\ UNCHANGED <<vrows, vi, cache, netlog, vmd>>
    /\ UNCHANGED extractVars
    /\ UNCHANGED otherVars

\* lines 68-85 and 89-121: the file is downloaded and written to the cache
DownloadOk ==
    /\ vpc = "row"
    /\ vi <= Len(vrows)
    /\ ~CacheHit(cache, vrows[vi].PDB_ID)
    /\ netlog' = Append(netlog, [row |-> vi, code |-> vrows[vi].PDB_ID, ok |-> TRUE])
    /\ \E text \in Texts : cache' = StoreText(cache, vrows[vi].PDB_ID, text)
    /\ outfiles' = WithScripts(outfiles, vrows[vi])
    /\ vpc' = "extract"
    /\ UNCHANGED <<vrows, vi, vmd>>
    /\ UNCHANGED extractVars
    /\ UNCHANGED otherVars

\* lines 68-84: requests.get or raise_for_status raises; nothing catches it
DownloadFail ==
    /\ vpc = "row"
    /\ vi <= Len(vrows)
    /\ ~CacheHit(cache, vrows[vi].PDB_ID)
    /\ netlog' = Append(netlog, [row |-> vi, code |-> vrows[vi].PDB_ID, ok |-> FALSE])
    /\ vpc' = "crashed"
    /\ UNCHANGED <<vrows, vi, cache, vmd, outfiles>>
    /\ UNCHANGED extractVars
    /\ UNCHANGED otherVars

\* line 125: VMD writes the ligand-only file
ExtractOk ==
    /\ vpc = "extract"
    /\ vmd' = Append(vmd, [row |-> vi, step |-> "extract", ok |-> TRUE])
    /\ outfiles' = outfiles \cup {[folder |-> OutputFolder(vrows[vi]), file |-> "ligand.pdb"]}
    /\ vpc' = "render"
    /\ UNCHANGED <<vrows, vi, cache, netlog>>
    /\ UNCHANGED extractVars
    /\ UNCHANGED otherVars

\* line 125: VMD exits with an error; check=True raises CalledProcessError,
\* nothing catches it
ExtractFail ==
    /\ vpc = "extract"
    /\ vmd' = Append(vmd, [row |-> vi, step |-> "extract", ok |-> FALSE])
    /\ vpc' = "crashed"
    /\ UNCHANGED <<vrows, vi, cache, netlog, outfiles>>
    /\ UNCHANGED extractVars
    /\ UNCHANGED otherVars

\* lines 129-131: VMD renders the image; the loop goes to the next row
RenderOk ==
    /\ vpc = "render"
    /\ vmd' = Append(vmd, [row |-> vi, step |-> "render", ok |-> TRUE])
    /\ outfiles' = outfiles \cup {[folder |-> OutputFolder(vrows[vi]), file |-> "ligand.png"]}
    /\ vi' = vi + 1
    /\ vpc' = "row"
    /\ UNCHANGED <<vrows, cache, netlog>>
    /\ UNCHANGED extractVars
    /\ UNCHANGED otherVars

\* line 129: VMD exits with an error; nothing catches CalledProcessError
RenderFail ==
    /\ vpc = "render"
    /\ vmd' = Append(vmd, [row |-> vi, step |-> "render", ok |-> FALSE])
    /\ vpc' = "crashed"
    /\ UNCHANGED <<vrows, vi, cache, netlog, outfiles>>
    /\ UNCHANGED extractVars
    /\ UNCHANGED otherVars

\* line 68: the reader has no more rows
EndOfCsv ==
    /\ vpc = "row"
    /\ vi > Len(vrows)
    /\ vpc' = "done"
    /\ UNCHANGED <<vrows, vi, cache, netlog, vmd, outfiles>>
    /\ UNCHANGED extractVars
    /\ UNCHANGED otherVars

NextFinal ==
    \/ UseCached
    \/ DownloadOk
    \/ DownloadFail
    \/ ExtractOk
    \/ ExtractFail
    \/ RenderOk
    \/ RenderFail
    \/ EndOfCsv

SpecFinal == InitFinal /\ [][NextFinal]_vars

-----------------------------------------------------------------------------
(* extract_ligands_split_dual.py: one sheet with the entries of both       *)
(* targets, the code taken from the raw label as it is, two result lists.  *)

\* line 63: .str.extract(r'(\w{4})')[0], the leftmost run of four word
\* characters anywhere in the cell; no match, or a cell that is no string,
\* gives NaN
ExtractW4Anywhere(s) ==
    IF s = NaN \/ W4Starts(s) = {} THEN NaN
    ELSE SubSeq(s, Min(W4Starts(s)), Min(W4Starts(s)) + 3)

\* line 63: .str.extract(r'(\w{4})')[0].str.upper()
SplitCode(cell) == Upper(ExtractW4Anywhere(cell))

\* the Unique_ID cells of the dual sheet: BD2_1, AChE_1, bd2_ache, BD1_1 and
\* an empty cell
SplitIds ==
    {<<"B", "D", "2", "_", "1">>,
     <<"A", "C", "h", "E", "_", "1">>,
     <<"b", "d", "2", "_", "a", "c", "h", "e">>,
     <<"B", "D", "1", "_", "1">>,
     NaN}

LowerChar(c) ==
    CASE c = "A" -> "a"
      [] c = "B" -> "b"
      [] c = "C" -> "c"
      [] c = "D" -> "d"
      [] c = "E" -> "e"
      [] c = "H" -> "h"
      [] OTHER -> c

\* str.lower()
Lower(s) == [k \in 1..Len(s) |-> LowerChar(s[k])]

\* sub in s
Contains(s, sub) ==
    \E k \in 1..(Len(s) - Len(sub) + 1) : SubSeq(s, k, k + Len(sub) - 1) = sub

\* lines 55-68: the sheet is read, both lists are empty
InitSplitLoaded ==
    /\ df = <<>>
    /\ pc = "extract"
    /\ i = 0
    /\ requests = <<>>
    /\ results = <<>>
    /\ csv = <<>>
    /\ console = <<>>
    /\ InitRow
    /\ VmdIdle
    /\ OtherIdle

InitSplit ==
    /\ \E m \in 1..MaxRows : \E f \in [1..m -> BatchCells], u \in [1..m -> SplitIds] :
          sheet = [k \in 1..m |-> [Unique_ID |-> u[k], label |-> f[k]]]
    /\ InitSplitLoaded

\* lines 63-64: the code column, then dropna(subset=["PDB_ID"])
ExtractSplit ==
    /\ pc = "extract"
    /\ df' = SelectSeq([k \in 1..Len(sheet) |->
                           [Unique_ID |-> sheet[k].Unique_ID,
                            label |-> sheet[k].label,
                            PDB_ID |-> SplitCode(sheet[k].label)]],
                       LAMBDA r : r.PDB_ID # NaN)
    /\ i' = 1
    /\ pc' = "loop"
    /\ UNCHANGED <<sheet, requests, results, csv, console, rowVars>>
    /\ UNCHANGED vmdVars
    /\ UNCHANGED otherVars

\* lines 107-114
SplitRow(row, ligand) ==
    [UniqueID |-> row.Unique_ID,
     label |-> row.label,
     PDB_ID |-> row.PDB_ID,
     Ligand |-> ligand,
     Candidates |-> CandidatesField(ligands),
     Residues |-> SortedNames(all_residues)]

\* faulty variant of RouteBd2: every row is also a BD2 row
RouteBd2Always(unique_id) == TRUE

\* line 117: "bd2" in unique_id.lower()
RouteBd2(unique_id) == Contains(Lower(unique_id), <<"b", "d", "2">>)

\* line 119: "ache" in unique_id.lower()
RouteAche(unique_id) == Contains(Lower(unique_id), <<"a", "c", "h", "e">>)

\* lines 103-120: the row is built and appended to the list of its target
FinishRowSplit ==
    /\ pc = "traverse"
    /\ pos = Len(Traversal(structure))
    /\ df[i].Unique_ID # NaN
    /\ most_common_ligand' = SelectLigand(residue_counts)
    /\ LET result_row == SplitRow(df[i], most_common_ligand')
       IN  IF RouteBd2(df[i].Unique_ID)
           THEN /\ bd2_results' = Append(bd2_results, result_row)
                /\ UNCHANGED ache_results
           ELSE IF RouteAche(df[i].Unique_ID)
           THEN /\ ache_results' = Append(ache_results, result_row)
                /\ UNCHANGED bd2_results
           ELSE UNCHANGED <<bd2_results, ache_results>>
    /\ i' = i + 1
    /\ pc' = "loop"
    /\ UNCHANGED <<sheet, df, requests, structure, pos, ligands, all_residues,
                   residue_counts, results, csv, console>>
    /\ UNCHANGED vmdVars
    /\ UNCHANGED <<clean_df, fs, listing, written, count>>

\* lines 117 and 122-123: unique_id is an empty cell, a float without
\* lower(); the except clause prints and the loop goes on
FinishRowSplitNoId ==
    /\ pc = "traverse"
    /\ pos = Len(Traversal(structure))
    /\ df[i].Unique_ID = NaN
    /\ most_common_ligand' = SelectLigand(residue_counts)
    /\ console' = Append(console, [row |-> i, error |-> "AttributeError"])
    /\ i' = i + 1
    /\ pc' = "loop"
    /\ UNCHANGED <<sheet, df, requests, structure, pos, ligands, all_residues,
                   residue_counts, results, csv>>
    /\ UNCHANGED vmdVars
    /\ UNCHANGED otherVars

\* lines 126-127: the two CSV files
SaveSplit ==
    /\ pc = "loop"
    /\ i > Len(df)
    /\ csv' = [bd2 |-> bd2_results, ache |-> ache_results]
    /\ pc' = "done"
    /\ UNCHANGED <<sheet, df, i, requests, results, console, rowVars>>
    /\ UNCHANGED vmdVars
    /\ UNCHANGED otherVars

NextSplit ==
    \/ ExtractSplit
    \/ FetchOk
    \/ FetchFail
    \/ VisitResidue
    \/ FinishRowSplit
    \/ FinishRowSplitNoId
    \/ SaveSplit

SpecSplit == InitSplit /\ [][NextSplit]_vars

\* line 63 alone, over every raw cell
InitSplitNorm ==
    /\ \/ sheet = <<[Unique_ID |-> <<"B", "D", "2", "_", "1">>, label |-> NaN]>>
       \/ \E n \in 0..MaxLen : \E text \in [1..n -> Chars] :
             sheet = <<[Unique_ID |-> <<"B", "D", "2", "_", "1">>, label |-> text]>>
    /\ InitSplitLoaded

NextSplitNorm == ExtractSplit

SpecSplitNorm == InitSplitNorm /\ [][NextSplitNorm]_vars

-----------------------------------------------------------------------------
(* extract_ligands_dual.py: the run over one sheet.  A failed row is kept  *)
(* with "N/A" in its three result fields, and the rows without a ligand    *)
(* are dropped before the CSV is written.                                  *)

\* line 63: astype(str).str.strip().str.upper()
CleanLabelDual(cell) == Upper(Strip(AsTypeStr(cell)))

\* line 64: .str.extract(r'(\w{4})$')[0].str.upper()
NormalizeCodeDual(label) == Upper(ExtractW4End(label))

\* line 57: the sheet may have no row at all
InitDual ==
    /\ \E m \in 0..MaxRows : \E f \in [1..m -> BatchCells] : sheet = SheetOf(f)
    /\ InitLoaded

\* line 63
CleanColumnDual ==
    /\ pc = "clean"
    /\ df' = [k \in 1..Len(df) |-> [df[k] EXCEPT !.label = CleanLabelDual(sheet[k].label)]]
    /\ pc' = "extract"
    /\ UNCHANGED <<sheet, i, requests, results, csv, console, rowVars>>
    /\ UNCHANGED vmdVars
    /\ UNCHANGED otherVars

\* lines 64-68
ExtractCodeDual ==
    /\ pc = "extract"
    /\ df' = [k \in 1..Len(df) |-> [df[k] EXCEPT !.PDB_ID = NormalizeCodeDual(df[k].label)]]
    /\ pc' = "loop"
    /\ i' = 1
    /\ UNCHANGED <<sheet, requests, results, csv, console, rowVars>>
    /\ UNCHANGED vmdVars
    /\ UNCHANGED otherVars

\* ", ".join(sorted(all_residues)) if all_residues else "None"
ResiduesFieldDual(names) == IF names # {} THEN SortedNames(names) ELSE <<"None">>

\* lines 98-107: the traversal is over
FinishRowDual ==
    /\ pc = "traverse"
    /\ pos = Len(Traversal(structure))
    /\ most_common_ligand' = SelectLigand(residue_counts)
    /\ results' = Append(results,
            [ResultRow(i, most_common_ligand')
                EXCEPT !.Residues = ResiduesFieldDual(all_residues)])
    /\ i' = i + 1
    /\ pc' = "loop"
    /\ UNCHANGED <<sheet, df, requests, structure, pos, ligands, all_residues,
                   residue_counts, csv, console>>
    /\ UNCHANGED vmdVars
    /\ UNCHANGED otherVars

\* lines 111-118
FailedRowDual(k) ==
    [UniqueID |-> sheet[k].Unique_ID,
     label |-> df[k].label,
     PDB_ID |-> df[k].PDB_ID,
     Ligand |-> "N/A",
     Candidates |-> <<"N/A">>,
     Residues |-> <<"N/A">>]

\* lines 76-80 and 109-118: an exception; the row is kept as a failed row
FetchFailDual ==
    /\ pc = "loop"
    /\ i <= Len(df)
    /\ requests' = Append(requests, [row |-> i, url |-> Url(df[i].PDB_ID)])
    /\ \E e \in Exceptions : console' = Append(console, [row |-> i, error |-> e])
    /\ results' = Append(results, FailedRowDual(i))
    /\ i' = i + 1
    /\ UNCHANGED <<sheet, df, pc, csv, rowVars>>
    /\ UNCHANGED vmdVars
    /\ UNCHANGED otherVars

\* faulty variant of KeepRowDual: only the failed rows are dropped
KeepRowUnlessFailed(r) == r.Ligand # "N/A"

\* line 124: result_df["Ligand(s)"].isin(["None", "N/A"]) == False
KeepRowDual(r) == r.Ligand \notin {"None", "N/A"}

\* lines 121-128: the rows without a ligand are dropped, the rest is saved
SaveDual ==
    /\ pc = "loop"
    /\ i > Len(df)
    /\ results # <<>>
    /\ csv' = SelectSeq(results, KeepRowDual)
    /\ pc' = "done"
    /\ UNCHANGED <<sheet, df, i, requests, results, console, rowVars>>
    /\ UNCHANGED vmdVars
    /\ UNCHANGED otherVars

\* lines 121-124: a DataFrame made of no row has no column "Ligand(s)";
\* the KeyError ends the script before anything is saved
SaveDualNoRows ==
    /\ pc = "loop"
    /\ i > Len(df)
    /\ results = <<>>
    /\ pc' = "crashed"
    /\ UNCHANGED <<sheet, df, i, requests, results, csv, console, rowVars>>
    /\ UNCHANGED vmdVars
    /\ UNCHANGED otherVars

NextDual ==
    \/ CleanColumnDual
    \/ ExtractCodeDual
    \/ FetchOk
    \/ FetchFailDual
    \/ VisitResidue
    \/ FinishRowDual
    \/ SaveDual
    \/ SaveDualNoRows

SpecDual == InitDual /\ [][NextDual]_vars

-----------------------------------------------------------------------------
(* realligand_mapping.py: the cached PDB files are scanned line by line.   *)
(* A line is its record type (columns 1-6) and the text of columns 18-20   *)
(* without blanks.                                                         *)

\* line 30
exclude_resnames == {"HOH", "SO4", "PO4", "CL", "NA", "MG", "CA", "ZN", "K"}

\* the value of a cell that was never assigned
None == <<"<None>">>

PdbLine(rec, name) == [record |-> rec, resname |-> name]

LineKinds ==
    {PdbLine("HETATM", "WAT"), PdbLine("HETATM", "HOH"), PdbLine("HETATM", "hoh"),
     PdbLine("HETATM", "JQ1"), PdbLine("HETATM", ""), PdbLine("ATOM", "JQ1")}

\* resname.upper()
UpperName(name) == IF name = "hoh" THEN "HOH" ELSE name

\* line 45: resname and resname.upper() not in exclude_resnames
KeepResname(name) == name # "" /\ UpperName(name) \notin exclude_resnames

\* sorted(ligands): capitals come before small letters
LineNameOrder == <<"HOH", "JQ1", "WAT", "hoh">>

\* lines 48-54: one name as it is, several names sorted and joined by ";",
\* none leaves the cell as it was
LigandResname(ligs, old) ==
    IF ligs = {} THEN old ELSE SelectSeq(LineNameOrder, LAMBDA n : n \in ligs)

\* lines 22-30: the codes are extracted, no file is scanned yet; pdb_dir holds
\* the files earlier downloads left
InitReal ==
    /\ \E m \in 1..MaxRows : \E f \in [1..m -> VmdCodes] :
          /\ sheet = [k \in 1..m |-> [Unique_ID |-> k, label |-> f[k]]]
          /\ df = [k \in 1..m |-> [UniqueID |-> k, PDB_ID |-> f[k], Ligand_Resname |-> None]]
    /\ \E n \in 0..MaxLines : \E file \in [1..n -> LineKinds] :
          cache \in [VmdCodes -> {[exists |-> FALSE, lines |-> <<>>],
                                  [exists |-> TRUE, lines |-> file]}]
    /\ pc = "loop"
    /\ i = 1
    /\ requests = <<>>
    /\ results = <<>>
    /\ csv = <<>>
    /\ console = <<>>
    /\ structure = <<>>
    /\ pos = 0
    /\ ligands = {}
    /\ all_residues = {}
    /\ residue_counts = <<>>
    /\ most_common_ligand = Unset
    /\ vrows = <<>>
    /\ vi = 0
    /\ vpc = "off"
    /\ netlog = <<>>
    /\ vmd = <<>>
    /\ outfiles = {}
    /\ OtherIdle

\* lines 36-38: no file for the code, the row is left as it is
FileNotFound ==
    /\ pc = "loop"
    /\ i <= Len(df)
    /\ ~cache[df[i].PDB_ID].exists
    /\ console' = Append(console, [row |-> i, error |-> "File not found"])
    /\ i' = i + 1
    /\ UNCHANGED <<sheet, df, pc, requests, results, csv, rowVars>>
    /\ UNCHANGED vmdVars
    /\ UNCHANGED otherVars

\* lines 40-41: the file is opened
OpenFile ==
    /\ pc = "loop"
    /\ i <= Len(df)
    /\ cache[df[i].PDB_ID].exists
    /\ structure' = cache[df[i].PDB_ID].lines
    /\ pos' = 0
    /\ ligands' = {}
    /\ pc' = "scan"
    /\ UNCHANGED <<sheet, df, i, requests, results, csv, console, all_residues,
                   residue_counts, most_common_ligand>>
    /\ UNCHANGED vmdVars
    /\ UNCHANGED otherVars

\* lines 42-46: one line of the file
ScanLine ==
    /\ pc = "scan"
    /\ pos < Len(structure)
    /\ LET line == structure[pos + 1]
       IN  ligands' = IF line.record = "HETATM" /\ KeepResname(line.resname)
                      THEN ligands \cup {line.resname}
                      ELSE ligands
    /\ pos' = pos + 1
    /\ UNCHANGED <<sheet, df, pc, i, requests, results, csv, console, structure,
                   all_residues, residue_counts, most_common_ligand>>
    /\ UNCHANGED vmdVars
    /\ UNCHANGED otherVars

\* lines 48-54: the names found are written to the row
RecordLigands ==
    /\ pc = "scan"
    /\ pos = Len(structure)
    /\ df' = [df EXCEPT ![i].Ligand_Resname = LigandResname(ligands, @)]
    /\ i' = i + 1
    /\ pc' = "loop"
    /\ UNCHANGED <<sheet, requests, results, csv, console, rowVars>>
    /\ UNCHANGED vmdVars
    /\ UNCHANGED otherVars

\* lines 57-58
SaveReal ==
    /\ pc = "loop"
    /\ i > Len(df)
    /\ csv' = df
    /\ pc' = "done"
    /\ UNCHANGED <<sheet, df, i, requests, results, console, rowVars>>
    /\ UNCHANGED vmdVars
    /\ UNCHANGED otherVars

NextReal ==
    \/ FileNotFound
    \/ OpenFile
    \/ ScanLine
    \/ RecordLigands
    \/ SaveReal

SpecReal == InitReal /\ [][NextReal]_vars

-----------------------------------------------------------------------------
(* data/validate_ligand_mapping.py: the table read from                    *)
(* ligand_mapping_full.csv is filtered and saved.  A cell is a text or     *)
(* Blank, the missing value read_csv gives for an empty cell (and, from    *)
(* pandas 2.0 on, for the text None).                                      *)

Blank == "<blank>"

LigandCells == {"JQ1", "UNLX5", "None", "NONE", "Error: HTTPError", Blank}

CodeCells == {"1ABC", Blank}

\* line 34: str.contains("Error", na=False)
ContainsError(cell) == cell = "Error: HTTPError"

\* line 35: str.lower(), a missing value stays missing
LowerCell(cell) ==
    CASE cell = "None" -> "none"
      [] cell = "NONE" -> "none"
      [] cell = "JQ1" -> "jq1"
      [] cell = "UNLX5" -> "unlx5"
      [] cell = "Error: HTTPError" -> "error: httperror"
      [] OTHER -> cell

\* lines 39-40: re.fullmatch(r"[A-Z0-9]{2,4}", name.strip())
is_valid_ligand_name(name) == name \in {"JQ1", "NONE"}

\* line 27: the table is read
InitValidate ==
    /\ \E m \in 0..MaxRows : \E l \in [1..m -> LigandCells], c \in [1..m -> CodeCells] :
          df = [k \in 1..m |-> [UniqueID |-> k, PDB_ID |-> c[k], Ligand |-> l[k]]]
    /\ sheet = <<>>
    /\ pc = "filter"
    /\ i = 0
    /\ requests = <<>>
    /\ results = <<>>
    /\ csv = <<>>
    /\ console = <<>>
    /\ InitRow
    /\ VmdIdle
    /\ OtherIdle

\* a column of missing values only is a float column, without .str
FloatColumn(table) == table # <<>> /\ \A k \in 1..Len(table) : table[k].Ligand = Blank

\* lines 33-36: the three filters
FilterRows ==
    /\ pc = "filter"
    /\ ~FloatColumn(df)
    /\ clean_df' = SelectSeq(df, LAMBDA r : /\ ~ContainsError(r.Ligand)
                                            /\ LowerCell(r.Ligand) # "none"
                                            /\ r.PDB_ID # Blank)
    /\ pc' = "check"
    /\ UNCHANGED <<sheet, df, i, requests, results, csv, console, rowVars>>
    /\ UNCHANGED vmdVars
    /\ UNCHANGED <<bd2_results, ache_results, fs, listing, written, count>>

\* line 34: .str on a float column raises AttributeError
FilterRowsNoStr ==
    /\ pc = "filter"
    /\ FloatColumn(df)
    /\ pc' = "crashed"
    /\ UNCHANGED <<sheet, df, i, requests, results, csv, console, rowVars>>
    /\ UNCHANGED vmdVars
    /\ UNCHANGED otherVars

\* lines 42-45: every ligand name left is looked at
SanityCheck ==
    /\ pc = "check"
    /\ \A k \in 1..Len(clean_df) : clean_df[k].Ligand # Blank
    /\ console' = SelectSeq(clean_df, LAMBDA r : ~is_valid_ligand_name(r.Ligand))
    /\ pc' = "save"
    /\ UNCHANGED <<sheet, df, i, requests, results, csv, rowVars>>
    /\ UNCHANGED vmdVars
    /\ UNCHANGED otherVars

\* lines 40 and 43-44: name.strip() on a missing value, a float, raises
\* AttributeError; the script ends before line 49
SanityCheckNoName ==
    /\ pc = "check"
    /\ \E k \in 1..Len(clean_df) : clean_df[k].Ligand = Blank
    /\ pc' = "crashed"
    /\ UNCHANGED <<sheet, df, i, requests, results, csv, console, rowVars>>
    /\ UNCHANGED vmdVars
    /\ UNCHANGED otherVars

\* lines 48-49
SaveValidated ==
    /\ pc = "save"
    /\ csv' = clean_df
    /\ pc' = "done"
    /\ UNCHANGED <<sheet, df, i, requests, results, console, rowVars>>
    /\ UNCHANGED vmdVars
    /\ UNCHANGED otherVars

NextValidate ==
    \/ FilterRows
    \/ FilterRowsNoStr
    \/ SanityCheck
    \/ SanityCheckNoName
    \/ SaveValidated

SpecValidate == InitValidate /\ [][NextValidate]_vars

-----------------------------------------------------------------------------
(* data/single_conversion.py: the first ligand file that is no test file   *)
(* is converted to .sdf and .pdbqt, unless its .pdbqt is there already.    *)

\* the *.pdb files under data/ligands: the folder they are in and their stem
LigandFiles ==
    {[folder |-> "L1", stem |-> "L1"],
     [folder |-> "L2", stem |-> "L2"],
     [folder |-> "TEST", stem |-> "L2"],
     [folder |-> "L3", stem |-> "L3_TEST"]}

\* line 51: "TEST" in pdb_file.parts or "TEST" in pdb_file.name
IsTestFile(f) == f.folder = "TEST" \/ f.stem = "L3_TEST"

\* lines 54-58: data/ligands_sdf/{stem}_TEST.sdf, data/ligands_pdbqt/{stem}_TEST.pdbqt
OutFile(ext, f) == [ext |-> ext, name |-> <<f.stem, "_TEST">>]

\* lines 40-49: rglob yields the files in some order; the output folders
\* hold what earlier runs wrote
InitConvert ==
    /\ \E n \in 0..Cardinality(LigandFiles) : \E l \in [1..n -> LigandFiles] :
          /\ \A j, k \in 1..n : j # k => l[j] # l[k]
          /\ listing = l
    /\ fs \in SUBSET {OutFile(e, f) : e \in {"sdf", "pdbqt"},
                                     f \in {g \in LigandFiles : ~IsTestFile(g)}}
    /\ written = <<>>
    /\ bd2_results = <<>>
    /\ ache_results = <<>>
    /\ clean_df = <<>>
    /\ count = 0
    /\ sheet = <<>>
    /\ df = <<>>
    /\ pc = "scan"
    /\ i = 1
    /\ requests = <<>>
    /\ results = <<>>
    /\ csv = <<>>
    /\ console = <<>>
    /\ InitRow
    /\ VmdIdle

convertFrame ==
    <<sheet, df, requests, results, csv, console, rowVars, vmdVars,
      bd2_results, ache_results, clean_df, listing, count>>

\* lines 49-52: a test file is passed over
SkipTest ==
    /\ pc = "scan"
    /\ i <= Len(listing)
    /\ IsTestFile(listing[i])
    /\ i' = i + 1
    /\ UNCHANGED <<pc, fs, written>>
    /\ UNCHANGED convertFrame

\* faulty variant of AlreadyConverted: the loop goes on to the next file
AlreadyConvertedContinue ==
    /\ pc = "scan"
    /\ i <= Len(listing)
    /\ ~IsTestFile(listing[i])
    /\ OutFile("pdbqt", listing[i]) \in fs
    /\ i' = i + 1
    /\ UNCHANGED <<pc, fs, written>>
    /\ UNCHANGED convertFrame

\* lines 60-63: the .pdbqt exists, the loop is left
AlreadyConverted ==
    /\ pc = "scan"
    /\ i <= Len(listing)
    /\ ~IsTestFile(listing[i])
    /\ OutFile("pdbqt", listing[i]) \in fs
    /\ pc' = "done"
    /\ UNCHANGED <<i, fs, written>>
    /\ UNCHANGED convertFrame

\* lines 65-86: both files are written, the loop is left
ConvertOk ==
    /\ pc = "scan"
    /\ i <= Len(listing)
    /\ ~IsTestFile(listing[i])
    /\ OutFile("pdbqt", listing[i]) \notin fs
    /\ written' = written \o <<OutFile("sdf", listing[i]), OutFile("pdbqt", listing[i])>>
    /\ fs' = fs \cup {OutFile("sdf", listing[i]), OutFile("pdbqt", listing[i])}
    /\ pc' = "done"
    /\ UNCHANGED i
    /\ UNCHANGED convertFrame

\* lines 67-86: Open Babel raises while reading or optimizing (nothing is
\* written) or while writing the .pdbqt (the .sdf is written); the except
\* clause prints, the loop is left
ConvertFail ==
    /\ pc = "scan"
    /\ i <= Len(listing)
    /\ ~IsTestFile(listing[i])
    /\ OutFile("pdbqt", listing[i]) \notin fs
    /\ \/ UNCHANGED <<written, fs>>
       \/ /\ written' = Append(written, OutFile("sdf", listing[i]))
          /\ fs' = fs \cup {OutFile("sdf", listing[i])}
    /\ pc' = "done"
    /\ UNCHANGED i
    /\ UNCHANGED convertFrame

\* line 49: rglob has no more files
NoLigandLeft ==
    /\ pc = "scan"
    /\ i > Len(listing)
    /\ pc' = "done"
    /\ UNCHANGED <<i, fs, written>>
    /\ UNCHANGED convertFrame

NextConvert ==
    \/ SkipTest
    \/ AlreadyConverted
    \/ ConvertOk
    \/ ConvertFail
    \/ NoLigandLeft

SpecConvert == InitConvert /\ [][NextConvert]_vars

-----------------------------------------------------------------------------
(* data/both_vmd_render.py: one call of process_csv.  Rows without ligand  *)
(* are passed over, a failed download or VMD run ends the row only.        *)

\* the PDB_ID cells of the cleaned CSV
BothCodeCells == {<<"1", "a", "b", "c", " ">>, <<"4", "A", "B", "C">>, <<>>}

\* the Ligand(s) cells of the cleaned CSV
BothLigandCells == {"JQ1", "None"}

\* line 53: row["PDB_ID"].strip().upper()
BothCode(row) == Upper(Strip(row.PDB_ID))

\* line 56: not pdb_id or not ligand or ligand.lower() == "none"
MissingLigand(row) ==
    BothCode(row) = <<>> \/ row.Ligand = "" \/ LowerCell(row.Ligand) = "none"

\* line 60: ligands_output_base / target_subdir / f"{unique_id}_{pdb_id}"
OutputFolderBoth(row) == <<"ache", row.UniqueID, BothCode(row)>>

\* lines 82-105: the two TCL scripts
WithScriptsBoth(files, row) ==
    files \cup {[folder |-> OutputFolderBoth(row), file |-> "extract_ligand.tcl"],
                [folder |-> OutputFolderBoth(row), file |-> "render.tcl"]}

\* lines 38-49: the folders exist, the CSV is open, count is 0
InitBoth ==
    /\ \E m \in 1..MaxRows : \E f \in [1..m -> BothCodeCells], l \in [1..m -> BothLigandCells] :
          vrows = [k \in 1..m |-> [UniqueID |-> k, PDB_ID |-> f[k], Ligand |-> l[k]]]
    /\ vi = 1
    /\ vpc = "row"
    /\ cache \in [VmdCodes -> {Missing} \cup Texts]
    /\ netlog = <<>>
    /\ vmd = <<>>
    /\ outfiles = {}
    /\ ExtractIdle
    /\ OtherIdle

bothFrame ==
    <<extractVars, vrows, bd2_results, ache_results, clean_df, fs, listing, written>>

\* lines 52-58
SkipRow ==
    /\ vpc = "row"
    /\ vi <= Len(vrows)
    /\ MissingLigand(vrows[vi])
    /\ vi' = vi + 1
    /\ UNCHANGED <<vpc, cache, netlog, vmd, outfiles, count>>
    /\ UNCHANGED bothFrame

\* lines 60-66 and 75-105: the file is in the cache
UseCachedBoth ==
    /\ vpc = "row"
    /\ vi <= Len(vrows)
    /\ ~MissingLigand(vrows[vi])
    /\ CacheHit(cache, BothCode(vrows[vi]))
    /\ outfiles' = WithScriptsBoth(outfiles, vrows[vi])
    /\ vpc' = "extract"
    /\ UNCHANGED <<vi, cache, netlog, vmd, count>>
    /\ UNCHANGED bothFrame

\* lines 60-71 and 78-105: the file is downloaded and written to the cache
DownloadOkBoth ==
    /\ vpc = "row"
    /\ vi <= Len(vrows)
    /\ ~MissingLigand(vrows[vi])
    /\ ~CacheHit(cache, BothCode(vrows[vi]))
    /\ \E text \in Texts :
          /\ netlog' = Append(netlog, [row |-> vi, code |-> BothCode(vrows[vi]),
                                       ok |-> TRUE, text |-> text])
          /\ cache' = StoreText(cache, BothCode(vrows[vi]), text)
    /\ outfiles' = WithScriptsBoth(outfiles, vrows[vi])
    /\ vpc' = "extract"
    /\ UNCHANGED <<vi, vmd, count>>
    /\ UNCHANGED bothFrame

\* faulty variant of DownloadFailBoth: the answer is written before its
\* status is looked at
DownloadFailBothStored ==
    /\ vpc = "row"
    /\ vi <= Len(vrows)
    /\ ~MissingLigand(vrows[vi])
    /\ ~CacheHit(cache, BothCode(vrows[vi]))
    /\ netlog' = Append(netlog, [row |-> vi, code |-> BothCode(vrows[vi]),
                                 ok |-> FALSE, text |-> Missing])
    /\ cache' = StoreText(cache, BothCode(vrows[vi]), "v1")
    /\ vi' = vi + 1
    /\ UNCHANGED <<vpc, vmd, outfiles, count>>
    /\ UNCHANGED bothFrame

\* lines 66-74: requests.get or raise_for_status raises; the except clause
\* prints and goes to the next row
DownloadFailBoth ==
    /\ vpc = "row"
    /\ vi <= Len(vrows)
    /\ ~MissingLigand(vrows[vi])
    /\ ~CacheHit(cache, BothCode(vrows[vi]))
    /\ netlog' = Append(netlog, [row |-> vi, code |-> BothCode(vrows[vi]),
                                 ok |-> FALSE, text |-> Missing])
    /\ vi' = vi + 1
    /\ UNCHANGED <<vpc, cache, vmd, outfiles, count>>
    /\ UNCHANGED bothFrame

\* line 109: VMD writes the ligand-only file
ExtractOkBoth ==
    /\ vpc = "extract"
    /\ vmd' = Append(vmd, [row |-> vi, step |-> "extract", ok |-> TRUE])
    /\ outfiles' = outfiles \cup {[folder |-> OutputFolderBoth(vrows[vi]), file |-> "ligand.pdb"]}
    /\ vpc' = "render"
    /\ UNCHANGED <<vi, cache, netlog, count>>
    /\ UNCHANGED bothFrame

\* faulty variant of ExtractFailBoth: the render step is run all the same
ExtractFailBothRenders ==
    /\ vpc = "extract"
    /\ vmd' = Append(vmd, [row |-> vi, step |-> "extract", ok |-> FALSE])
    /\ vpc' = "render"
    /\ UNCHANGED <<vi, cache, netlog, outfiles, count>>
    /\ UNCHANGED bothFrame

\* lines 109 and 115-116: VMD exits with an error; check=True raises
\* CalledProcessError, the except clause prints, the row is over
ExtractFailBoth ==
    /\ vpc = "extract"
    /\ vmd' = Append(vmd, [row |-> vi, step |-> "extract", ok |-> FALSE])
    /\ vi' = vi + 1
    /\ vpc' = "row"
    /\ UNCHANGED <<cache, netlog, outfiles, count>>
    /\ UNCHANGED bothFrame

\* lines 112-114: VMD renders the image, the row is counted
RenderOkBoth ==
    /\ vpc = "render"
    /\ vmd' = Append(vmd, [row |-> vi, step |-> "render", ok |-> TRUE])
    /\ outfiles' = outfiles \cup {[folder |-> OutputFolderBoth(vrows[vi]), file |-> "ligand.png"]}
    /\ count' = count + 1
    /\ vi' = vi + 1
    /\ vpc' = "row"
    /\ UNCHANGED <<cache, netlog>>
    /\ UNCHANGED bothFrame

\* lines 112 and 115-116: the render run fails, the row is not counted
RenderFailBoth ==
    /\ vpc = "render"
    /\ vmd' = Append(vmd, [row |-> vi, step |-> "render", ok |-> FALSE])
    /\ vi' = vi + 1
    /\ vpc' = "row"
    /\ UNCHANGED <<cache, netlog, outfiles, count>>
    /\ UNCHANGED bothFrame

\* lines 51 and 118: the reader has no more rows, the count is printed
EndOfCsvBoth ==
    /\ vpc = "row"
    /\ vi > Len(vrows)
    /\ vpc' = "done"
    /\ UNCHANGED <<vi, cache, netlog, vmd, outfiles, count>>
    /\ UNCHANGED bothFrame

NextBoth ==
    \/ SkipRow
    \/ UseCachedBoth
    \/ DownloadOkBoth
    \/ DownloadFailBoth
    \/ ExtractOkBoth
    \/ ExtractFailBoth
    \/ RenderOkBoth
    \/ RenderFailBoth
    \/ EndOfCsvBoth

SpecBoth == InitBoth /\ [][NextBoth]_vars

-----------------------------------------------------------------------------
(* data/organise_lig_folders.py: the ligand folders directly under the     *)
(* base are moved to ache/ or bd2/.  A name is its prefix and the rest; an *)
(* entry is its path under the base, whether it is a directory, and where  *)
(* it was when the first run started ("top": directly under the base).     *)

Entry(path, dir, tag) == [path |-> path, dir |-> dir, tag |-> tag]

ache_dir == <<"ache">>
bd2_dir == <<"bd2">>

\* what may lie directly under the base besides ache and bd2
TopEntries ==
    {Entry(<< <<"AChE_", "1">> >>, TRUE, "top"),
     Entry(<< <<"BRD4_BD2_", "1">> >>, TRUE, "top"),
     Entry(<< <<"BRD4-BD1_", "1">> >>, TRUE, "top"),
     Entry(<< <<"AChE_", "2">> >>, FALSE, "top")}

\* what earlier runs may have left under ache and bd2
OldEntries ==
    {{},
     {Entry(<<ache_dir, <<"AChE_", "1">> >>, TRUE, "old")},
     {Entry(<<ache_dir, <<"AChE_", "1">> >>, TRUE, "old"),
      Entry(<<ache_dir, <<"AChE_", "1">>, <<"AChE_", "1">> >>, TRUE, "old")},
     {Entry(<<bd2_dir, <<"BRD4_BD2_", "1">> >>, TRUE, "old")}}

\* folder.name.startswith(prefix)
StartsWith(name, prefix) == name[1] = prefix

\* os.path.exists
Exists(files, path) == \E e \in files : e.path = path

\* os.path.isdir
IsDir(files, path) == \E e \in files : e.path = path /\ e.dir

\* the entries directly under the base
TopLevel(files) == {e \in files : Len(e.path) = 1}

\* shutil.move(src, dst): into dst when dst is a directory, else to dst
RealDst(files, src, dst) ==
    IF IsDir(files, dst) THEN Append(dst, src[Len(src)]) ELSE dst

\* the entry src and what is under it get the new place
Moved(files, src, dst) ==
    {IF Len(e.path) >= Len(src) /\ SubSeq(e.path, 1, Len(src)) = src
     THEN [e EXCEPT !.path = dst \o SubSeq(e.path, Len(src) + 1, Len(e.path))]
     ELSE e : e \in files}

\* line 28 or 31: where the folder of that name is to go, if anywhere
Destination(name) ==
    IF StartsWith(name, "AChE_") THEN <<ache_dir, name>>
    ELSE IF StartsWith(name, "BRD4_BD2_") THEN <<bd2_dir, name>>
    ELSE <<>>

\* lines 16-25: ache and bd2 exist, iterdir has listed the base
InitOrganise ==
    /\ \E top \in SUBSET TopEntries : \E old \in OldEntries :
          fs = top \cup old \cup {Entry(<<ache_dir>>, TRUE, "top"), Entry(<<bd2_dir>>, TRUE, "top")}
    /\ \E l \in [1..Cardinality(TopLevel(fs)) -> TopLevel(fs)] :
          /\ \A j, k \in 1..Len(l) : j # k => l[j] # l[k]
          /\ listing = l
    /\ written = <<>>
    /\ bd2_results = <<>>
    /\ ache_results = <<>>
    /\ clean_df = <<>>
    /\ count = 0
    /\ sheet = <<>>
    /\ df = <<>>
    /\ pc = "scan"
    /\ i = 1
    /\ requests = <<>>
    /\ results = <<>>
    /\ csv = <<>>
    /\ console = <<>>
    /\ InitRow
    /\ VmdIdle

\* lines 25-32: a directory with one of the two prefixes is moved
MoveFolder ==
    /\ pc \in {"scan", "rescan"}
    /\ i <= Len(listing)
    /\ listing[i].dir
    /\ Destination(listing[i].path[1]) # <<>>
    /\ LET src == listing[i].path
           dst == RealDst(fs, src, Destination(src[1]))
       IN  /\ ~Exists(fs, dst)
           /\ fs' = Moved(fs, src, dst)
           /\ written' = Append(written, [run |-> pc, from |-> src, to |-> dst])
    /\ i' = i + 1
    /\ UNCHANGED pc
    /\ UNCHANGED convertFrame

\* lines 28 and 31: shutil.move raises Error, the destination path already
\* exists; nothing catches it
MoveFolderExists ==
    /\ pc \in {"scan", "rescan"}
    /\ i <= Len(listing)
    /\ listing[i].dir
    /\ Destination(listing[i].path[1]) # <<>>
    /\ Exists(fs, RealDst(fs, listing[i].path, Destination(listing[i].path[1])))
    /\ pc' = "crashed"
    /\ UNCHANGED <<i, fs, written>>
    /\ UNCHANGED convertFrame

\* lines 26 and 33-34: a file, or a directory of another prefix
SkipEntry ==
    /\ pc \in {"scan", "rescan"}
    /\ i <= Len(listing)
    /\ ~listing[i].dir \/ Destination(listing[i].path[1]) = <<>>
    /\ i' = i + 1
    /\ UNCHANGED <<pc, fs, written>>
    /\ UNCHANGED convertFrame

\* line 36
EndOfListing ==
    /\ pc \in {"scan", "rescan"}
    /\ i > Len(listing)
    /\ pc' = IF pc = "scan" THEN "done" ELSE "redone"
    /\ UNCHANGED <<i, fs, written>>
    /\ UNCHANGED convertFrame

\* the script is run a second time: lines 16-25 again
RunAgain ==
    /\ pc = "done"
    /\ \E l \in [1..Cardinality(TopLevel(fs)) -> TopLevel(fs)] :
          /\ \A j, k \in 1..Len(l) : j # k => l[j] # l[k]
          /\ listing' = l
    /\ i' = 1
    /\ pc' = "rescan"
    /\ UNCHANGED <<fs, written>>
    /\ UNCHANGED <<sheet, df, requests, results, csv, console, rowVars, vmdVars,
                   bd2_results, ache_results, clean_df, count>>

NextOrganise ==
    \/ MoveFolder
    \/ MoveFolderExists
    \/ SkipEntry
    \/ EndOfListing
    \/ RunAgain

SpecOrganise == InitOrganise /\ [][NextOrganise]_vars

-----------------------------------------------------------------------------
(* What the claims speak of, stated on the inputs alone *)

\* the raw text of a cell without its non-breaking spaces and without the
\* whitespace at its two ends
TrimmedText(cell) ==
    LET s == SelectSeq(AsTypeStr(cell), LAMBDA c : c # NBSP)
        inked == {k \in 1..Len(s) : s[k] # " "}
    IN  IF inked = {} THEN <<>>
        ELSE SubSeq(s, Min(inked), CHOOSE k \in inked : \A j \in inked : j <= k)

\* the text ends in a run of 4 alphanumeric characters
HasTrailingToken(t) ==
    Len(t) >= 4 /\ \A j \in (Len(t) - 3)..Len(t) : IsAlnum(t[j])

\* its last 4 characters, upper-cased
TrailingTokenUpper(t) == [j \in 1..4 |-> UpperChar(t[Len(t) - 4 + j])]

\* the column clean-up of lines 41-42 has run
Extracted == pc \notin {"clean", "extract"}

\* the fixed exclusion set, token by token
ExclusionTokens ==
    {"HOH", "WAT", "SO4", "PO4", "CL", "NA", "MG", "ZN", "K", "CA"}

\* a residue that counts as a ligand candidate
CandidateResidue(r) == r.het # " " /\ r.resname \notin ExclusionTokens

\* the positions of the traversal that hold a candidate residue named n
CandidatePositions(n) ==
    LET T == Traversal(structure)
    IN  {k \in 1..Len(T) : CandidateResidue(T[k]) /\ T[k].resname = n}

OccurrenceCount(n) == Cardinality(CandidatePositions(n))

AllNames ==
    LET T == Traversal(structure)
    IN  {T[k].resname : k \in 1..Len(T)}

CandidateNames ==
    LET T == Traversal(structure)
    IN  {T[k].resname : k \in {j \in 1..Len(T) : CandidateResidue(T[j])}}

RECURSIVE SumAtoms(_)
SumAtoms(S) ==
    IF S = {} THEN 0
    ELSE LET k == CHOOSE x \in S : TRUE
         IN  Traversal(structure)[k].atoms + SumAtoms(S \ {k})

\* the total number of atoms of the candidate residues named n
AtomTotal(n) == SumAtoms(CandidatePositions(n))

\* the row of the current structure has been traversed and its result appended
RowDone == pc # "traverse" /\ results # <<>>

-----------------------------------------------------------------------------
(* The claims *)

\* C1: once the column clean-up has run, every cell whose text, rid of
\* non-breaking spaces and of the whitespace at its ends, ends in a run of 4
\* alphanumeric characters has as PDB_ID exactly those 4 characters upper-cased,
\* whatever text precedes them.
C1_TrailingTokenUpperCased ==
    Extracted =>
        \A k \in 1..Len(df) :
            HasTrailingToken(TrimmedText(sheet[k].label)) =>
                df[k].PDB_ID = TrailingTokenUpper(TrimmedText(sheet[k].label))

\* a padded cell with text before its code has been normalized
C1_Witness ==
    /\ Extracted
    /\ sheet[1].label = <<NBSP, "_", "a", "7", "7", "a">>
    /\ HasTrailingToken(TrimmedText(sheet[1].label))
    /\ df[1].PDB_ID = <<"A", "7", "7", "A">>

\* C2: a row whose cell has no trailing 4-character alphanumeric token is
\* never fetched: every request issued belongs to a row that has such a token.
C2_InvalidNeverFetched ==
    \A k \in 1..Len(requests) :
        HasTrailingToken(TrimmedText(sheet[requests[k].row].label))

\* C3: when the structure holds a candidate, the primary ligand is a candidate
\* and no candidate occurs in more residues than it does.
C3_PrimaryHasHighestCount ==
    (RowDone /\ CandidateNames # {}) =>
        /\ most_common_ligand \in CandidateNames
        /\ most_common_ligand \in SeqToSet(ligands)
        /\ \A n \in CandidateNames :
              OccurrenceCount(n) <= OccurrenceCount(most_common_ligand)

\* the winner is not the candidate met first: another one comes first with
\* fewer residues
C3_Witness ==
    /\ RowDone
    /\ \E n \in CandidateNames :
          /\ OccurrenceCount(n) < OccurrenceCount(most_common_ligand)
          /\ \A k \in CandidatePositions(most_common_ligand) :
                \E j \in CandidatePositions(n) : j < k

\* C4: a structure without any candidate residue (polymer residues, excluded
\* heteroatoms, or nothing at all) gives the primary ligand "None" and an empty
\* candidate list.
C4_NoCandidateGivesNone ==
    (RowDone /\ CandidateNames = {}) =>
        /\ most_common_ligand = "None"
        /\ ligands = <<>>
        /\ residue_counts = <<>>
        /\ results[Len(results)].Ligand = "None"

\* polymer residues and water only
C4_Witness ==
    /\ RowDone
    /\ CandidateNames = {}
    /\ {"ALA", "HOH"} \subseteq AllNames
    /\ most_common_ligand = "None"

\* C5: no token of the exclusion set is ever among the ligand candidates or
\* in the counter, and the name of every residue visited, excluded ones
\* included, is in all_residues.
C5_ExcludedNeverCandidate ==
    /\ SeqToSet(ligands) \cap ExclusionTokens = {}
    /\ CounterNames(residue_counts) \cap ExclusionTokens = {}
    /\ LET T == Traversal(structure)
       IN  \A k \in 1..pos : T[k].resname \in all_residues

\* waters next to one ligand: the water is recorded, the ligand alone is the
\* candidate and the primary ligand
C5_Witness ==
    /\ RowDone
    /\ OccurrenceCount("JQ1") = 1
    /\ Cardinality({k \in 1..Len(Traversal(structure)) :
                        Traversal(structure)[k] = Residue("HOH", "W", 1)}) >= 2
    /\ all_residues = {"HOH", "JQ1"}
    /\ SeqToSet(ligands) = {"JQ1"}
    /\ most_common_ligand = "JQ1"

\* C6: a step of the traversal appends the residue's name to the candidates
\* and adds one to its count if and only if the residue is heteroatom-type
\* with a name outside the exclusion set; any other step leaves both alone.
C6_CandidateIffHetNotExcluded ==
    [][pos' = pos + 1 =>
        LET r == Traversal(structure)[pos + 1]
        IN  IF CandidateResidue(r)
            THEN /\ ligands' = Append(ligands, r.resname)
                 /\ CounterGet(residue_counts', r.resname)
                        = CounterGet(residue_counts, r.resname) + 1
            ELSE /\ ligands' = ligands
                 /\ residue_counts' = residue_counts]_vars

\* a polymer residue with a name outside the exclusion set has been passed
\* over, a heteroatom residue of the same name has been counted
C6_Witness ==
    /\ RowDone
    /\ \E k \in 1..Len(Traversal(structure)) :
          Traversal(structure)[k] = Residue("UNL", " ", 1)
    /\ OccurrenceCount("UNL") = 1
    /\ ligands = <<"UNL">>

\* C7: at every point of the traversal and after it, the candidate names and
\* the names in the counter are names of all_residues.
C7_CandidatesSubsetOfResidues ==
    /\ SeqToSet(ligands) \subseteq all_residues
    /\ CounterNames(residue_counts) \subseteq all_residues

\* in the middle of a traversal, a candidate already found
C7_Witness ==
    /\ pc = "traverse"
    /\ 0 < pos
    /\ pos < Len(Traversal(structure))
    /\ ligands # <<>>

\* C8: among the candidates of the highest count, the primary ligand is the
\* one whose first residue comes earliest in the traversal.
C8_TieKeepsFirstEncountered ==
    (RowDone /\ CandidateNames # {}) =>
        LET top == {n \in CandidateNames :
                        \A m \in CandidateNames : OccurrenceCount(m) <= OccurrenceCount(n)}
        IN  /\ most_common_ligand \in top
            /\ \A n \in top :
                  Min(CandidatePositions(most_common_ligand)) <= Min(CandidatePositions(n))

\* a tie that the ascending name order would settle the other way
C8_Witness ==
    /\ RowDone
    /\ OccurrenceCount("JQ1") = OccurrenceCount("UNL")
    /\ OccurrenceCount("UNL") > 0
    /\ most_common_ligand = "UNL"

\* C9: the final count of a name is the number of heteroatom-type residues of
\* that name outside the exclusion set, whatever their atoms.
C9_CountIsResidueCount ==
    RowDone =>
        \A n \in AllNames \cup CounterNames(residue_counts) :
            CounterGet(residue_counts, n) = OccurrenceCount(n)

\* a candidate residue of several atoms has been counted
C9_Witness ==
    /\ RowDone
    /\ \E k \in CandidatePositions("JQ1") : Traversal(structure)[k].atoms > 1
    /\ OccurrenceCount("JQ1") > 1
    /\ CounterGet(residue_counts, "JQ1") = OccurrenceCount("JQ1")

\* C10: the primary ligand is the candidate with the largest total number of
\* atoms.
C10_PrimaryHasMostAtoms ==
    (RowDone /\ CandidateNames # {}) =>
        \A n \in CandidateNames : AtomTotal(n) <= AtomTotal(most_common_ligand)

\* C11: the saved table of the batch has one row per input record, the
\* records whose fetch or parse failed included.
C11_OneRowPerRecord ==
    pc = "done" => Len(csv) = Len(sheet)

\* the rows of the sheet whose processing is over
Processed == 1..(IF i = 0 THEN 0 ELSE i - 1)

\* the message an error is reported with
ErrorMessage(e) ==
    CASE e = "ConnectionError" -> "Error: ConnectionError"
      [] e = "HTTPError" -> "Error: HTTPError"
      [] e = "ParseError" -> "Error: ParseError"

\* C12: in ligand_mapping_full.py every record whose fetch or parse raised is
\* exactly one row of results that keeps its unique-id, raw identifier and
\* code, carries "Error: <message>" in the ligand field and "N/A" in the
\* candidate and residue fields; results has one row per processed record
\* and the saved table one row per input record.
C12_FailedRecordIsOneErrorRow ==
    /\ Len(results) = Cardinality(Processed)
    /\ \A k \in 1..Len(console) :
          LET r == console[k].row
          IN  /\ r <= Len(results)
              /\ results[r].UniqueID = sheet[r].Unique_ID
              /\ results[r].label = df[r].label
              /\ results[r].PDB_ID = df[r].PDB_ID
              /\ results[r].Ligand = ErrorMessage(console[k].error)
              /\ results[r].Candidates = <<"N/A">>
              /\ results[r].Residues = <<"N/A">>
    /\ pc = "done" => Len(csv) = Len(sheet)

\* a failed record between two saved rows: the table is saved with the
\* error row of the first record and the result of the second
C12_Witness ==
    /\ pc = "done"
    /\ Len(csv) = 2
    /\ console = <<[row |-> 1, error |-> "HTTPError"]>>
    /\ csv[1].Ligand = "Error: HTTPError"
    /\ csv[2].Ligand = "JQ1"

\* the batch of ache_only_extract.py, every step of which ends: a blocking
\* call returns or raises, and the interpreter then runs the next statement
FairSpec == Spec /\ WF_vars(Next)

C14_NoErrorIsFatal ==
    vpc \in {"done", "crashed"} => vi > Len(vrows)

\* C15: a request is only ever issued for the code of the row at hand and
\* while no file of that code is in the cache, so a row whose file exists
\* issues none; hence no code is requested again after a successful download.
C15_CachedRowIssuesNoRequest ==
    /\ [][netlog' # netlog =>
            /\ Len(netlog') = Len(netlog) + 1
            /\ netlog'[Len(netlog')].row = vi
            /\ netlog'[Len(netlog')].code = vrows[vi].PDB_ID
            /\ cache[vrows[vi].PDB_ID] = Missing]_vars
    /\ [](\A j, k \in 1..Len(netlog) :
            (j < k /\ netlog[j].code = netlog[k].code) => ~netlog[j].ok)

\* the second row has the code the first row downloaded, and has passed the
\* download step without a request
C15_Witness ==
    /\ vpc = "extract"
    /\ vi = 2
    /\ vrows[1].PDB_ID = vrows[2].PDB_ID
    /\ netlog = <<[row |-> 1, code |-> vrows[1].PDB_ID, ok |-> TRUE]>>

\* C16: no step rewrites, truncates or deletes a file of the cache: a code
\* that has a file keeps it with the same text.
C16_CacheFileNeverRewritten ==
    [][\A code \in VmdCodes :
          cache[code] # Missing => cache'[code] = cache[code]]_vars

\* a batch over cached codes has ended without a request, the files in place
C16_Witness ==
    /\ vpc = "done"
    /\ Len(vrows) = 2
    /\ vrows[1].PDB_ID # vrows[2].PDB_ID
    /\ netlog = <<>>
    /\ cache[vrows[1].PDB_ID] = "v1"
    /\ cache[vrows[2].PDB_ID] = "v2"

\* the rows whose request has been issued
Started == {r \in 1..Len(df) : r < i \/ (r = i /\ pc = "traverse")}

\* the requests issued for row r
RequestsOf(r) == {k \in 1..Len(requests) : requests[k].row = r}

\* https://files.rcsb.org/download/{CODE}.pdb
DownloadUrl(code) ==
    <<"https://files.rcsb.org/download/">> \o FormatCode(code) \o <<".pdb">>

\* C17: every row the loop has taken up has issued exactly one GET, to
\* https://files.rcsb.org/download/{CODE}.pdb with its own code, whether it
\* failed or not and whether or not an earlier row had the same code; a row
\* not yet taken up has issued none.
C17_OneRequestPerRow ==
    /\ \A r \in 1..Len(df) :
          Cardinality(RequestsOf(r)) = IF r \in Started THEN 1 ELSE 0
    /\ \A k \in 1..Len(requests) :
          requests[k].url = DownloadUrl(df[requests[k].row].PDB_ID)

\* two rows of the same code, the first of which failed: two requests to the
\* same address, one per row
C17_Witness ==
    /\ pc = "done"
    /\ Len(requests) = 2
    /\ requests[1].url = requests[2].url
    /\ requests[1].row = 1
    /\ requests[2].row = 2
    /\ Len(console) = 1
    /\ console[1].row = 1
    /\ Len(csv) = 1

\* the rows recorded so far, as a result or as a printed failure
Recorded ==
    {results[k].UniqueID : k \in 1..Len(results)}
        \cup {console[k].row : k \in 1..Len(console)}

\* C18: the k-th request is the one of row k, it is issued only when every
\* earlier row has been recorded as a result or as a failure, at most the row
\* being traversed is open, and the results are in the order of their rows.
C18_RowOrderOneAtATime ==
    /\ \A k \in 1..Len(requests) :
          /\ requests[k].row = k
          /\ \A r \in 1..(k - 1) : sheet[r].Unique_ID \in Recorded
    /\ \A r \in Started \ Recorded : r = i /\ pc = "traverse"
    /\ \A j, k \in 1..Len(results) :
          j < k => results[j].UniqueID < results[k].UniqueID

\* two rows parsed one after the other, saved in their order
C18_Witness ==
    /\ pc = "done"
    /\ Len(csv) = 2
    /\ csv[1].UniqueID = 1
    /\ csv[2].UniqueID = 2
    /\ csv[1].PDB_ID # csv[2].PDB_ID

\* the primary ligand of the current structure, from its residues alone
ExpectedPrimary ==
    IF CandidateNames = {} THEN "None"
    ELSE LET top == {n \in CandidateNames :
                        \A m \in CandidateNames : OccurrenceCount(m) <= OccurrenceCount(n)}
         IN  CHOOSE n \in top :
                \A m \in top : Min(CandidatePositions(n)) <= Min(CandidatePositions(m))

\* C19: the row appended for a record is determined by the record and its own
\* structure: its ligand, candidates and residues are those of that
\* structure alone, whatever rows were processed or failed before.
C19_ResultDependsOnOwnStructure ==
    RowDone =>
        LET r == results[Len(results)]
        IN  /\ r.Ligand = ExpectedPrimary
            /\ r.Candidates = (IF CandidateNames = {} THEN <<"None">>
                               ELSE SortedNames(CandidateNames))
            /\ r.Residues = SortedNames(AllNames)
            /\ r.PDB_ID = df[r.UniqueID].PDB_ID

\* a structure without candidates parsed after one with two candidates
C19_Witness ==
    /\ RowDone
    /\ Len(results) = 2
    /\ results[1].Candidates = <<"JQ1", "UNL">>
    /\ results[2].Ligand = "None"
    /\ results[2].Residues = <<"ALA", "HOH">>

\* C20: a step leaves the rows already in results as they are and adds at
\* most one row, at the end.
C20_ResultsOnlyAppended ==
    [][/\ Len(results) <= Len(results')
       /\ Len(results') <= Len(results) + 1
       /\ SubSeq(results', 1, Len(results)) = results]_vars

\* an error row and a result row, saved as they were appended
C20_Witness ==
    /\ pc = "done"
    /\ Len(results) = 2
    /\ results[1].PDB_ID = results[2].PDB_ID
    /\ results[1].Ligand = "JQ1"
    /\ results[2].Ligand = "Error: ConnectionError"
    /\ csv = results

\* the characters of a residue name, as code points
CodePoints(n) ==
    CASE n = "ALA" -> <<65, 76, 65>>
      [] n = "CA" -> <<67, 65>>
      [] n = "HOH" -> <<72, 79, 72>>
      [] n = "JQ1" -> <<74, 81, 49>>
      [] n = "UNL" -> <<85, 78, 76>>

\* a comes before b in the order of strings
RECURSIVE LexLess(_, _)
LexLess(a, b) ==
    IF b = <<>> THEN FALSE
    ELSE IF a = <<>> THEN TRUE
    ELSE IF a[1] # b[1] THEN a[1] < b[1]
    ELSE LexLess(Tail(a), Tail(b))

\* the names of the list are in strictly ascending order
Ascending(s) ==
    \A k \in 1..(Len(s) - 1) : LexLess(CodePoints(s[k]), CodePoints(s[k + 1]))

\* C21: the row appended for a parsed record lists, as candidates, the
\* distinct candidate names of its structure in ascending order, each once,
\* and, as residues, the distinct residue names in ascending order.
C21_FieldsSortedDistinct ==
    RowDone =>
        LET r == results[Len(results)]
        IN  /\ CandidateNames # {} =>
                  /\ Ascending(r.Candidates)
                  /\ SeqToSet(r.Candidates) = CandidateNames
            /\ Ascending(r.Residues)
            /\ SeqToSet(r.Residues) = AllNames

\* UNL met before two JQ1 residues: listed after it, and JQ1 once
C21_Witness ==
    /\ RowDone
    /\ ligands = <<"UNL", "JQ1", "JQ1">>
    /\ results[Len(results)].Candidates = <<"JQ1", "UNL">>
    /\ results[Len(results)].Residues = <<"JQ1", "UNL">>

\* C22: in extract_ligands_split_dual.py a label with a trailing run of 4
\* alphanumeric characters keeps its row, and the PDB_ID of the row is that
\* run upper-cased, the code the column clean-up of the other scripts gives.
C22_SplitCodeIsTrailingToken ==
    pc = "loop" =>
        \A k \in 1..Len(sheet) :
            HasTrailingToken(TrimmedText(sheet[k].label)) =>
                /\ Len(df) = Len(sheet)
                /\ df[k].PDB_ID = TrailingTokenUpper(TrimmedText(sheet[k].label))
                /\ df[k].PDB_ID = NormalizeCode(CleanLabel(sheet[k].label))

\* the identifier holds "bd2", in any letter case
DesignatesBd2(id) ==
    /\ id # NaN
    /\ \E k \in 1..(Len(id) - 2) :
          id[k] \in {"b", "B"} /\ id[k + 1] \in {"d", "D"} /\ id[k + 2] = "2"

\* the identifier holds "ache", in any letter case
DesignatesAche(id) ==
    /\ id # NaN
    /\ \E k \in 1..(Len(id) - 3) :
          /\ id[k] \in {"a", "A"}
          /\ id[k + 1] \in {"c", "C"}
          /\ id[k + 2] \in {"h", "H"}
          /\ id[k + 3] \in {"e", "E"}

\* the step ends the traversal of a row without an error
RowExtracted == pc = "traverse" /\ pc' = "loop" /\ console' = console

\* the row of the record the loop is at has been added to the list
Grown(list, list2) ==
    /\ Len(list2) = Len(list) + 1
    /\ SubSeq(list2, 1, Len(list)) = list
    /\ list2[Len(list2)].UniqueID = df[i].Unique_ID
    /\ list2[Len(list2)].PDB_ID = df[i].PDB_ID

C23_ExcludedNeverRecorded ==
    \A k \in 1..Len(df) :
        df[k].Ligand_Resname # None =>
            SeqToSet(df[k].Ligand_Resname) \cap ExclusionTokens = {}

\* the rows of the sheet for which a primary ligand was found
LigandFound ==
    {k \in 1..Len(results) : results[k].Ligand \notin {"None", "N/A"}}

\* C24: the CSV extract_ligands_dual.py saves for a sheet has no row whose
\* ligand is "None" or "N/A"; its rows are the rows of the records for which
\* a primary ligand was found, each once and in the order of the sheet; the
\* failed records are the ones marked "N/A".
C24_SavedRowsHaveLigand ==
    pc = "done" =>
        /\ \A j \in 1..Len(csv) : csv[j].Ligand \notin {"None", "N/A"}
        /\ Len(results) = Len(sheet)
        /\ \A k \in 1..Len(results) :
              /\ results[k].UniqueID = k
              /\ results[k].Ligand = "N/A" <=> \E c \in 1..Len(console) : console[c].row = k
        /\ Len(csv) = Cardinality(LigandFound)
        /\ \A j \in 1..Len(csv) :
              /\ csv[j].UniqueID \in LigandFound
              /\ csv[j] = results[csv[j].UniqueID]
        /\ \A j, k \in 1..Len(csv) : j < k => csv[j].UniqueID < csv[k].UniqueID

\* a record without candidate is dropped, the record after it is saved
C24_Witness ==
    /\ pc = "done"
    /\ Len(results) = 2
    /\ results[1].Ligand = "None"
    /\ results[2].Ligand = "JQ1"
    /\ csv = <<results[2]>>

\* the row has a ligand that is a name, and a code
ValidRow(r) ==
    /\ r.Ligand \notin {Blank, "None", "NONE", "none", "Error: HTTPError"}
    /\ r.PDB_ID # Blank

\* C25: validate_ligand_mapping.py completes on every table, and what it
\* writes is the table without the rows whose ligand is missing, None in
\* any letter case or an error message, and without the rows whose PDB_ID is
\* missing, the other rows unchanged and in their order.
C25_ValidatedOutput ==
    /\ pc # "crashed"
    /\ pc = "done" => csv = SelectSeq(df, ValidRow)

\* the positions of the listing that hold no test file
LigandPositions == {k \in 1..Len(listing) : ~IsTestFile(listing[k])}

\* C27: a step of single_conversion.py that writes a file is the first of
\* the run to write, writes the .sdf, or the .sdf and then the .pdbqt, of the
\* first file of the listing that is no test file, and is taken only when
\* the .pdbqt of that file does not exist; nothing else changes the output
\* folders.
C27_OneLigandNoOverwrite ==
    [][IF written' # written
       THEN /\ written = <<>>
            /\ LigandPositions # {}
            /\ LET first == listing[Min(LigandPositions)]
               IN  /\ OutFile("pdbqt", first) \notin fs
                   /\ written' \in {<<OutFile("sdf", first)>>,
                                    <<OutFile("sdf", first), OutFile("pdbqt", first)>>}
                   /\ fs' = fs \cup SeqToSet(written')
       ELSE fs' = fs]_vars

\* a test file is passed over and the ligand after it is converted, the one
\* after that is not
C27_Witness ==
    /\ pc = "done"
    /\ Len(listing) = 3
    /\ IsTestFile(listing[1])
    /\ listing[2] = [folder |-> "L1", stem |-> "L1"]
    /\ listing[3] = [folder |-> "L2", stem |-> "L2"]
    /\ written = <<OutFile("sdf", listing[2]), OutFile("pdbqt", listing[2])>>
    /\ OutFile("pdbqt", listing[3]) \notin fs

\* the row names a ligand and a code
NamesLigand(row) ==
    /\ row.Ligand \notin {"", "None", "none", "NONE"}
    /\ \E k \in 1..Len(row.PDB_ID) : row.PDB_ID[k] # " "

\* the VMD step of the row has been run with this outcome
VmdRun(r, step, ok) ==
    \E k \in 1..Len(vmd) : vmd[k] = [row |-> r, step |-> step, ok |-> ok]

\* C28: in process_csv a render run directly follows the successful extract
\* run of its row; no VMD run belongs to a row without ligand or to a row
\* whose download failed; every step of a row is run at most once; count is
\* the number of rows whose extract and render runs both succeeded.
C28_RenderAfterExtractAndCount ==
    /\ \A k \in 1..Len(vmd) :
          /\ vmd[k].step = "render" =>
                k > 1 /\ vmd[k - 1] = [row |-> vmd[k].row, step |-> "extract", ok |-> TRUE]
          /\ NamesLigand(vrows[vmd[k].row])
          /\ \A n \in 1..Len(netlog) : netlog[n].row = vmd[k].row => netlog[n].ok
          /\ \A j \in 1..Len(vmd) :
                (vmd[j].row = vmd[k].row /\ vmd[j].step = vmd[k].step) => j = k
    /\ count = Cardinality({r \in 1..Len(vrows) :
                                VmdRun(r, "extract", TRUE) /\ VmdRun(r, "render", TRUE)})

\* the extract run of the first row fails, the second row is extracted and
\* rendered: one row counted
C28_Witness ==
    /\ vpc = "done"
    /\ count = 1
    /\ vmd = <<[row |-> 1, step |-> "extract", ok |-> FALSE],
               [row |-> 2, step |-> "extract", ok |-> TRUE],
               [row |-> 2, step |-> "render", ok |-> TRUE]>>

\* the cache file of a code changes only from absent to the text of a
\* successful response for that code, received in the same step
WrittenAfterSuccess ==
    \A code \in VmdCodes :
        cache'[code] # cache[code] =>
            /\ cache[code] = Missing
            /\ Len(netlog') = Len(netlog) + 1
            /\ netlog'[Len(netlog')].ok
            /\ netlog'[Len(netlog')].code = code
            /\ netlog'[Len(netlog')].text = cache'[code]

\* a row with a ligand whose code has no cache file issues a request
RequestedWhenAbsent ==
    (/\ vpc = "row"
     /\ vi <= Len(vrows)
     /\ NamesLigand(vrows[vi])
     /\ cache[BothCode(vrows[vi])] = Missing) =>
        /\ Len(netlog') = Len(netlog) + 1
        /\ netlog'[Len(netlog')].row = vi
        /\ netlog'[Len(netlog')].code = BothCode(vrows[vi])

\* C29: a step changes the cache file of a code only from absent to the text
\* of a successful response for that code received in that step; a failed
\* download leaves the cache as it was; and a row with a ligand whose code
\* has no cache file issues a request when it is processed.
C29_CacheOnlyAfterSuccess ==
    /\ [][WrittenAfterSuccess /\ RequestedWhenAbsent]_vars
    /\ [](\A k \in 1..Len(netlog) :
             IF netlog[k].ok THEN cache[netlog[k].code] = netlog[k].text
             ELSE \/ cache[netlog[k].code] = Missing
                  \/ \E n \in (k + 1)..Len(netlog) :
                        netlog[n].ok /\ netlog[n].code = netlog[k].code)

\* the download of a code fails for the first row and is requested again,
\* with success, for the second row of the same code
C29_Witness ==
    /\ Len(netlog) = 2
    /\ ~netlog[1].ok
    /\ netlog[2].ok
    /\ netlog[1].code = netlog[2].code
    /\ netlog[1].row = 1
    /\ netlog[2].row = 2
    /\ cache[netlog[2].code] = netlog[2].text

\* the name begins with one of the two prefixes
HasTargetPrefix(name) == name[1] \in {"AChE_", "BRD4_BD2_"}

\* where the claim wants a folder of that name: ache/<name> or bd2/<name>
TargetPath(name) ==
    IF name[1] = "AChE_" THEN << <<"ache">>, name >> ELSE << <<"bd2">>, name >>

\* C30: the script runs to its end, and then no directory directly under
\* the base has one of the two prefixes, every directory that was there with
\* such a prefix is at ache/<name> or bd2/<name>, whatever was at the
\* destination before, every other entry that was directly under the base
\* is where it was, and a second run moves nothing.
C30_FoldersOrganised ==
    /\ pc # "crashed"
    /\ pc \in {"done", "rescan", "redone"} =>
          /\ \A e \in TopLevel(fs) : e.dir => ~HasTargetPrefix(e.path[1])
          /\ \A e \in fs :
                (e.tag = "top" /\ e.dir /\ HasTargetPrefix(e.path[Len(e.path)])) =>
                    e.path = TargetPath(e.path[Len(e.path)])
          /\ \A e \in fs :
                (e.tag = "top" /\ ~(e.dir /\ HasTargetPrefix(e.path[Len(e.path)]))) =>
                    Len(e.path) = 1
          /\ \A k \in 1..Len(written) : written[k].run = "scan"

====
